---- MODULE Spec2Model ----
(***************************************************************************)
(* Entry / tag state engine of the food journal: App (entries, tags,       *)
(* persistence, tag cascade), HomeView (filter, selection, bulk actions,   *)
(* drag reorder, tag manager) and AddEntryView (tag creation, deferred     *)
(* save).  Strings are sequences of one-character strings so that trim()   *)
(* is computed, not assumed.                                               *)
(***************************************************************************)
EXTENDS Integers, Sequences, FiniteSets, TLC

(* ------------------------------ bounds --------------------------------- *)
\* number of save clicks of the authoring form that start a timer in one run
MaxSaves == 2
\* number of localStorage.setItem calls for the entry document that may throw
MaxWriteFailures == 1
\* number of save timers that may be pending at the same time
MaxPending == 1
\* length the Tag Registry may grow to
MaxTags == 3
MaxFiles == 2
MaxDecoding == 2

(* ------------------------------ strings -------------------------------- *)
a == <<"a">>
b == <<"b">>
c == <<"c">>
\* the label of the unfiltered view (the two-character label "quan bu", All)
ALL == <<"Q", "B">>

\* what the user may type into a tag name input (rename field, prompt)
RawInputs ==
  { <<>>, <<" ">>, a, b, c, <<"a", " ">>, <<" ", "c", " ">> }

\* what window.prompt may return: <<>> stands for null (cancelled) and for
\* the empty string alike
PromptInputs == { <<>>, <<" ">>, a, c, <<" ", "c", " ">> }

\* titles the user may type into the form; "" is the empty title
Titles == {"", "t1"}

IsSpace(ch) == ch = " "

RECURSIVE TrimStart(_)
TrimStart(s) ==
  IF s = <<>> THEN <<>>
  ELSE IF IsSpace(Head(s)) THEN TrimStart(Tail(s)) ELSE s

RECURSIVE TrimEnd(_)
TrimEnd(s) ==
  IF s = <<>> THEN <<>>
  ELSE IF IsSpace(s[Len(s)]) THEN TrimEnd(SubSeq(s, 1, Len(s) - 1)) ELSE s

\* String.prototype.trim
Trim(s) == TrimEnd(TrimStart(s))

(* ------------------------------ arrays --------------------------------- *)
\* Array.prototype.includes
Includes(arr, x) == \E i \in DOMAIN arr : arr[i] = x

\* arr.filter(t => t !== x)
Without(arr, x) == SelectSeq(arr, LAMBDA t : t # x)

\* arr.map(t => t === x ? y : t)
Substitute(arr, x, y) == [i \in DOMAIN arr |-> IF arr[i] = x THEN y ELSE arr[i]]

\* arr.indexOf(x): 0-based, -1 when absent
IndexOf(arr, x) ==
  IF Includes(arr, x)
  THEN (CHOOSE i \in DOMAIN arr : arr[i] = x /\ \A j \in 1..(i - 1) : arr[j] # x) - 1
  ELSE -1

\* entries.findIndex(item => item.id === id): 0-based, -1 when absent
FindIndexById(es, id) ==
  IF \E i \in DOMAIN es : es[i].id = id
  THEN (CHOOSE i \in DOMAIN es : es[i].id = id /\ \A j \in 1..(i - 1) : es[j].id # id) - 1
  ELSE -1

\* the elements at from and to exchanged
ArrayMoveSwap(arr, from, to) ==
  [i \in DOMAIN arr |-> IF i = from + 1 THEN arr[to + 1]
                        ELSE IF i = to + 1 THEN arr[from + 1] ELSE arr[i]]

\* arrayMove of @dnd-kit/sortable: copy, splice(from, 1), splice(to, 0, item);
\* indices are 0-based, a start index past the end is clamped by splice
ArrayMove(arr, from, to) ==
  LET item == arr[from + 1]
      rest == SubSeq(arr, 1, from) \o SubSeq(arr, from + 2, Len(arr))
      at   == IF to < 0 THEN Len(arr) + to ELSE to
      pos  == IF at > Len(rest) THEN Len(rest) ELSE IF at < 0 THEN 0 ELSE at
  IN SubSeq(rest, 1, pos) \o <<item>> \o SubSeq(rest, pos + 1, Len(rest))

(* --------------------------- initial data ------------------------------ *)
\* the built-in tag set (reduced to two names)
DEFAULT_TAGS == <<a, b>>

\* the built-in entries (reduced to two entries over the built-in tags)
INITIAL_ENTRIES ==
  << [id |-> 1, title |-> "t1", tags |-> <<a, b>>,
      images |-> <<1, 2>>, coverImageIndex |-> 0],
     [id |-> 2, title |-> "t1", tags |-> <<b>>,
      images |-> <<1>>, coverImageIndex |-> 0] >>

\* localStorage.getItem returns null for a key never written
Absent == [present |-> FALSE, doc |-> <<>>]

\* the document stored by setItem(key, JSON.stringify(doc))
Stored(doc) == [present |-> TRUE, doc |-> doc]


\* a stored string that JSON.parse rejects
Unparsable == [present |-> TRUE, doc |-> <<>>, parses |-> FALSE]

\* JSON.parse returns a value for the stored string
Parses(item) == "parses" \notin DOMAIN item

\* null / empty string: both are falsy in the guards of the code
Null == <<>>

\* an initialiser that starts empty when nothing usable is stored
LoadEntriesEmpty(saved) ==
  IF saved.present /\ Parses(saved) THEN saved.doc ELSE <<>>

\* an initialiser that takes a stored empty collection for no collection
LoadEntriesNonEmpty(saved) ==
  IF saved.present /\ saved.doc # <<>> THEN saved.doc ELSE INITIAL_ENTRIES

\* the initialiser of the entries state
LoadEntries(saved) ==
  IF saved.present
  THEN IF Parses(saved) THEN saved.doc ELSE INITIAL_ENTRIES
  ELSE INITIAL_ENTRIES

\* the initialiser of the tags state
LoadTags(saved) ==
  IF saved.present
  THEN IF Parses(saved) THEN saved.doc ELSE DEFAULT_TAGS
  ELSE DEFAULT_TAGS

\* a journal an earlier session has stored: three entries, in an order of
\* the user's making
SAVED_ENTRIES ==
  << [id |-> 3, title |-> "t1", tags |-> <<>>,
      images |-> <<1>>, coverImageIndex |-> 0],
     [id |-> 1, title |-> "t1", tags |-> <<a>>,
      images |-> <<1, 2>>, coverImageIndex |-> 0],
     [id |-> 2, title |-> "t1", tags |-> <<b>>,
      images |-> <<1>>, coverImageIndex |-> 0] >>

(* ----------------------- App: pure parts of handlers ------------------- *)
\* handleAddTag: the state updater applied to prev, tagsC is the tag list
\* captured by the closure the handler was created in
AddTagUpdater(tagsC, prev, newTag) ==
  IF Trim(newTag) = <<>> THEN prev
  ELSE LET tag == Trim(newTag)
       IN IF ~Includes(tagsC, tag) THEN Append(prev, tag) ELSE prev

\* entry.tags.forEach(t => handleAddTag(t))
RECURSIVE AddAllTags(_, _, _)
AddAllTags(tagsC, prev, list) ==
  IF list = <<>> THEN prev
  ELSE AddAllTags(tagsC, AddTagUpdater(tagsC, prev, Head(list)), Tail(list))

\* handleDeleteTag: prev.filter(t => t !== tagToDelete)
DeleteTagUpdater(prev, tag) == Without(prev, tag)

\* handleRenameTag, the early return
RenameRejected(oldTag, newTag) ==
  oldTag = <<>> \/ newTag = <<>> \/ oldTag = newTag

\* a rename that forgets the merge case and always substitutes
RenameTagsUpdaterNoMerge(prev, oldTag, trimmedNewTag) ==
  Substitute(prev, oldTag, trimmedNewTag)

\* handleRenameTag, the setTags updater
RenameTagsUpdater(prev, oldTag, trimmedNewTag) ==
  IF Includes(prev, trimmedNewTag)
  THEN Without(prev, oldTag)
  ELSE Substitute(prev, oldTag, trimmedNewTag)

\* a rename that drops the old name from an entry instead of replacing it
RenameEntryTagsDrop(entryTags, oldTag, trimmedNewTag) ==
  Without(entryTags, oldTag)

\* handleRenameTag, the tags of one entry
RenameEntryTags(entryTags, oldTag, trimmedNewTag) ==
  IF Includes(entryTags, oldTag)
  THEN IF Includes(entryTags, trimmedNewTag)
       THEN Without(entryTags, oldTag)
       ELSE Substitute(entryTags, oldTag, trimmedNewTag)
  ELSE entryTags

\* handleRenameTag, updatedEntries
RenameEntries(es, oldTag, trimmedNewTag) ==
  [i \in DOMAIN es |->
     [es[i] EXCEPT !.tags = RenameEntryTags(es[i].tags, oldTag, trimmedNewTag)]]

\* updatedEntries without the test for a known id
SaveEntryListPrepend(es, entry) == <<entry>> \o es

\* handleSaveEntry, updatedEntries
SaveEntryList(es, entry) ==
  IF \E i \in DOMAIN es : es[i].id = entry.id
  THEN [i \in DOMAIN es |-> IF es[i].id = entry.id THEN entry ELSE es[i]]
  ELSE <<entry>> \o es

(* --------------------- HomeView: pure parts of handlers ---------------- *)
\* categories: the label of the unfiltered view followed by the registry
Categories(ts) == <<ALL>> \o ts

\* visibleEntries
VisibleEntries(es, cat) ==
  IF cat = ALL THEN es ELSE SelectSeq(es, LAMBDA e : Includes(e.tags, cat))

\* executeDeleteCards: remaining
RemainingEntries(es, ids) == SelectSeq(es, LAMBDA e : ~Includes(ids, e.id))

\* executeMoveCards: updated
MoveCards(es, ids, targetTag) ==
  [i \in DOMAIN es |->
     IF Includes(ids, es[i].id)
     THEN [es[i] EXCEPT !.tags =
             IF ~Includes(es[i].tags, targetTag)
             THEN Append(es[i].tags, targetTag) ELSE es[i].tags]
     ELSE es[i]]

\* confirmDeleteTag('tag_only'): updated
StripTag(es, tag) ==
  [i \in DOMAIN es |-> [es[i] EXCEPT !.tags = Without(es[i].tags, tag)]]

\* confirmDeleteTag('tag_all'): updated
DropTagged(es, tag) == SelectSeq(es, LAMBDA e : ~Includes(e.tags, tag))

(* ------------------------------- state --------------------------------- *)
VARIABLES
  entries,            \* App: the Entry Store
  tags,               \* App: the Tag Registry
  lsEntries,          \* localStorage 'gourmet_journal_entries'
  lsTags,             \* localStorage 'gourmet_tags'
  currentView,        \* App: ViewState
  selectedEntryId,    \* App: id of the entry shown in DETAIL / EDIT, 0 = null
  activeCategory,     \* HomeView: the active filter
  isSelectionMode,    \* HomeView
  selectedIds,        \* HomeView
  deleteConfirmType,  \* HomeView: "none" | "cards"
  isTagManagerOpen,   \* HomeView
  tagToDelete,        \* HomeView: tag awaiting the delete confirmation
  showMoveModal,      \* HomeView
  press,              \* FoodCard: the card under the held pointer, its timer
  isSaving,           \* AddEntryView
  form,               \* AddEntryView: images, coverIndex, the image
                      \* selection, and the files being decoded
  pending,            \* save timers not yet fired, oldest first
  saves,              \* number of save clicks that started a timer
  failures,           \* number of entry writes that threw
  last                \* the handler that ran last, its arguments and branch

appVars  == <<entries, tags, lsEntries, lsTags>>
navVars  == <<currentView, selectedEntryId>>
homeVars == <<activeCategory, isSelectionMode, selectedIds, deleteConfirmType,
              isTagManagerOpen, tagToDelete, showMoveModal, press>>
formVars == <<isSaving, pending, form>>
envVars  == <<saves, failures>>
vars == <<entries, tags, lsEntries, lsTags, currentView, selectedEntryId,
          activeCategory, isSelectionMode, selectedIds, deleteConfirmType,
          isTagManagerOpen, tagToDelete, showMoveModal, press, isSaving, pending,
          form, saves, failures, last>>

\* the record of a step: the handler, its tag arguments, the case of its
\* input and whether the storage write went through
Did(op, x, y, case, ok) ==
  [op |-> op, x |-> x, y |-> y, case |-> case, ok |-> ok]

\* the record of a step that touches neither the store nor the registry
Quiet == Did("ui", Null, Null, "", TRUE)

\* no pointer is held on a card
NoPress == [id |-> 0, fired |-> FALSE, idle |-> FALSE]

\* the state HomeView is mounted with
HomeMounted ==
  /\ activeCategory' = ALL
  /\ isSelectionMode' = FALSE
  /\ selectedIds' = <<>>
  /\ deleteConfirmType' = "none"
  /\ isTagManagerOpen' = FALSE
  /\ tagToDelete' = Null
  /\ showMoveModal' = FALSE
  /\ press' = NoPress

\* the image state AddEntryView is mounted with
NoForm ==
  [images |-> <<>>, coverIndex |-> 0, isImageSelectionMode |-> FALSE,
   selectedImageIndices |-> {}, decoding |-> 0]

\* the image state of the form once the effect on initialEntry has run:
\* the edit form takes the images and the cover of the entry
FormOpened(v) ==
  LET i == FindIndexById(entries, selectedEntryId)
  IN IF v = "EDIT" /\ i # -1 /\ Len(entries[i + 1].images) > 0
     THEN [NoForm EXCEPT !.images = entries[i + 1].images,
                         !.coverIndex = entries[i + 1].coverImageIndex]
     ELSE NoForm

\* the effect on initialEntry runs again in a mounted edit form when the
\* entry it edits has been replaced in the store by entry
FormReloaded(entry) ==
  IF currentView = "EDIT" /\ entry.id = selectedEntryId
  THEN [form EXCEPT !.images = entry.images,
                    !.coverIndex = entry.coverImageIndex]
  ELSE form

\* App switches to view v: the element keyed by currentView is replaced, the
\* local state of the view that goes away is discarded
SwitchView(v) ==
  /\ currentView' = v
  /\ IF v = currentView
     THEN UNCHANGED <<homeVars, isSaving, form>>
     ELSE HomeMounted /\ isSaving' = FALSE /\ form' = FormOpened(v)

Init ==
  /\ entries = INITIAL_ENTRIES
  /\ tags = DEFAULT_TAGS
  /\ lsEntries = Absent
  /\ lsTags = Stored(DEFAULT_TAGS)
  /\ currentView = "HOME"
  /\ selectedEntryId = 0
  /\ activeCategory = ALL
  /\ isSelectionMode = FALSE
  /\ selectedIds = <<>>
  /\ deleteConfirmType = "none"
  /\ isTagManagerOpen = FALSE
  /\ tagToDelete = Null
  /\ showMoveModal = FALSE
  /\ press = NoPress
  /\ isSaving = FALSE
  /\ pending = <<>>
  /\ form = NoForm
  /\ saves = 0
  /\ failures = 0
  /\ last = Quiet

\* what the two keys of localStorage may hold when the page is loaded: what
\* the last session left, nothing (site data cleared), or a damaged string
StartEntries == {lsEntries, Absent, Unparsable}
StartTags == {lsTags, Absent, Unparsable}

\* the page is loaded over a storage holding se and st: the initialisers of
\* App run, every view starts afresh, timers of the old page are gone, the
\* effect on tags stores the registry
Startup(se, st) ==
  /\ se \in StartEntries /\ st \in StartTags
  /\ entries' = LoadEntries(se)
  /\ lsEntries' = se
  /\ tags' = LoadTags(st)
  /\ lsTags' = Stored(LoadTags(st))
  /\ currentView' = "HOME"
  /\ selectedEntryId' = 0
  /\ HomeMounted
  /\ isSaving' = FALSE
  /\ pending' = <<>>
  /\ form' = NoForm
  /\ last' = [op |-> "startup", x |-> se, y |-> st, case |-> "", ok |-> TRUE]
  /\ UNCHANGED <<saves, failures>>

\* the state after construction over a storage holding a journal of three
\* entries and the built-in tags
InitFeed ==
  /\ entries = SAVED_ENTRIES
  /\ tags = DEFAULT_TAGS
  /\ lsEntries = Stored(SAVED_ENTRIES)
  /\ lsTags = Stored(DEFAULT_TAGS)
  /\ currentView = "HOME"
  /\ selectedEntryId = 0
  /\ activeCategory = ALL
  /\ isSelectionMode = FALSE
  /\ selectedIds = <<>>
  /\ deleteConfirmType = "none"
  /\ isTagManagerOpen = FALSE
  /\ tagToDelete = Null
  /\ showMoveModal = FALSE
  /\ press = NoPress
  /\ isSaving = FALSE
  /\ pending = <<>>
  /\ form = NoForm
  /\ saves = 0
  /\ failures = 0
  /\ last = Quiet

\* outcomes of localStorage.setItem for the entry document: TRUE = stored,
\* FALSE = it throws (quota exceeded)
WriteOutcomes == IF failures < MaxWriteFailures THEN {TRUE, FALSE} ELSE {TRUE}

\* handleUpdateEntries: setEntries, then the write
handleUpdateEntries(newEntries, ok) ==
  /\ entries' = newEntries
  /\ lsEntries' = IF ok THEN Stored(newEntries) ELSE lsEntries
  /\ failures' = IF ok THEN failures ELSE failures + 1

\* setTags followed by the effect that persists the tags after the render
SetTags(newTags) ==
  /\ Len(newTags) <= MaxTags
  /\ tags' = newTags
  /\ lsTags' = Stored(newTags)


(* --------------------------- HomeView: events -------------------------- *)
\* no overlay covers the feed, the header and the bottom navigation
NoModal ==
  /\ ~isTagManagerOpen
  /\ tagToDelete = Null
  /\ deleteConfirmType = "none"
  /\ ~showMoveModal

OnHome == currentView = "HOME"

IdsOf(es) == {es[i].id : i \in DOMAIN es}
TagsOf(ts) == {ts[i] : i \in DOMAIN ts}

\* a capsule of the category bar is clicked
SetActiveCategory(cat) ==
  /\ OnHome /\ NoModal /\ press = NoPress /\ ~isSelectionMode
  /\ Includes(Categories(tags), cat)
  /\ activeCategory' = cat
  /\ last' = Quiet
  /\ UNCHANGED <<appVars, navVars, formVars, press, envVars, isSelectionMode,
                 selectedIds, deleteConfirmType, isTagManagerOpen, tagToDelete,
                 showMoveModal>>

toggleSelectionMode ==
  /\ OnHome /\ NoModal /\ press = NoPress
  /\ isSelectionMode' = ~isSelectionMode
  /\ selectedIds' = <<>>
  /\ deleteConfirmType' = "none"
  /\ last' = Did("toggleSelectionMode", Null, Null, "", TRUE)
  /\ UNCHANGED <<appVars, navVars, formVars, press, envVars, activeCategory,
                 isTagManagerOpen, tagToDelete, showMoveModal>>

\* a selection that only ever grows
ToggleSelectedAdd(ids, id) ==
  IF Includes(ids, id) THEN ids ELSE Append(ids, id)

\* handleCardClick in selection mode: the next selectedIds
ToggleSelected(ids, id) ==
  IF Includes(ids, id) THEN Without(ids, id) ELSE Append(ids, id)

\* handleCardClick on a card of the feed; outside selection mode it is
\* App.handleEntryClick
handleCardClick(id) ==
  /\ OnHome /\ NoModal
  /\ id \in IdsOf(VisibleEntries(entries, activeCategory))
  /\ IF isSelectionMode
     THEN /\ selectedIds' = ToggleSelected(selectedIds, id)
          /\ last' = Did("handleCardClick", id, Null, "toggled", TRUE)
          /\ UNCHANGED <<navVars, activeCategory, isSelectionMode,
                         deleteConfirmType, isTagManagerOpen, tagToDelete,
                         showMoveModal, isSaving, form>>
     ELSE /\ selectedEntryId' = id
          /\ SwitchView("DETAIL")
          /\ last' = Quiet
  /\ UNCHANGED <<appVars, pending, envVars>>

handleCardLongPress(id) ==
  /\ OnHome /\ NoModal
  /\ id \in IdsOf(VisibleEntries(entries, activeCategory))
  /\ IF ~isSelectionMode
     THEN /\ isSelectionMode' = TRUE
          /\ selectedIds' = <<id>>
          /\ last' = Did("handleCardLongPress", id, Null, "entered", TRUE)
     ELSE /\ UNCHANGED <<isSelectionMode, selectedIds>>
          /\ last' = Did("handleCardLongPress", id, Null, "ignored", TRUE)
  /\ UNCHANGED <<appVars, navVars, formVars, envVars, activeCategory,
                 deleteConfirmType, isTagManagerOpen, tagToDelete,
                 showMoveModal>>

\* FoodCard.startPress: the pointer goes down on a card, the 300 ms timer
\* is started; its callback is the onLongPress of this render (idle: that
\* render was outside selection mode)
startPress(id) ==
  /\ OnHome /\ NoModal
  /\ id \in IdsOf(VisibleEntries(entries, activeCategory))
  /\ press = NoPress
  /\ press' = [id |-> id, fired |-> FALSE, idle |-> ~isSelectionMode]
  /\ last' = Quiet
  /\ UNCHANGED <<appVars, navVars, formVars, envVars, activeCategory,
                 isSelectionMode, selectedIds, deleteConfirmType,
                 isTagManagerOpen, tagToDelete, showMoveModal>>

\* the timer of startPress fires while the pointer is still down:
\* onLongPress
LongPressTimer ==
  /\ press.id # 0 /\ ~press.fired
  /\ handleCardLongPress(press.id)
  /\ press' = [press EXCEPT !.fired = TRUE]

\* FoodCard.endPress: the pointer goes up (or leaves the card), a running
\* timer is cleared; delivered tells whether the browser then delivers the
\* click to the card (it does not when the pointer left the card or the
\* drag sensor has taken the gesture)
endPress(delivered) ==
  /\ press.id # 0
  /\ press' = NoPress
  /\ IF delivered
     THEN handleCardClick(press.id)
     ELSE /\ last' = Quiet
          /\ UNCHANGED <<appVars, navVars, formVars, envVars, activeCategory,
                         isSelectionMode, selectedIds, deleteConfirmType,
                         isTagManagerOpen, tagToDelete, showMoveModal>>

\* a tap on a card: pointer down, pointer up and the click, the timer not
\* having fired
Tap(id) ==
  /\ press = NoPress
  /\ handleCardClick(id)
  /\ press' = NoPress

\* the trash button of the selection header
RequestDeleteCards ==
  /\ OnHome /\ NoModal /\ press = NoPress /\ isSelectionMode
  /\ Len(selectedIds) > 0
  /\ deleteConfirmType' = "cards"
  /\ last' = Quiet
  /\ UNCHANGED <<appVars, navVars, formVars, press, envVars, activeCategory,
                 isSelectionMode, selectedIds, isTagManagerOpen, tagToDelete,
                 showMoveModal>>

CancelDeleteCards ==
  /\ OnHome /\ deleteConfirmType = "cards"
  /\ deleteConfirmType' = "none"
  /\ last' = Quiet
  /\ UNCHANGED <<appVars, navVars, formVars, press, envVars, activeCategory,
                 isSelectionMode, selectedIds, isTagManagerOpen, tagToDelete,
                 showMoveModal>>

\* resetSelection
resetSelection ==
  /\ isSelectionMode' = FALSE
  /\ selectedIds' = <<>>
  /\ deleteConfirmType' = "none"

executeDeleteCards ==
  /\ OnHome /\ deleteConfirmType = "cards"
  /\ \E ok \in WriteOutcomes :
       /\ handleUpdateEntries(RemainingEntries(entries, selectedIds), ok)
       /\ IF ok THEN resetSelection
                ELSE UNCHANGED <<isSelectionMode, selectedIds, deleteConfirmType>>
       /\ last' = Did("executeDeleteCards", Null, Null, "", ok)
  /\ UNCHANGED <<tags, lsTags, navVars, formVars, press, saves, activeCategory,
                 isTagManagerOpen, tagToDelete, showMoveModal>>

\* the move button of the selection header
OpenMoveModal ==
  /\ OnHome /\ NoModal /\ press = NoPress /\ isSelectionMode
  /\ Len(selectedIds) > 0
  /\ showMoveModal' = TRUE
  /\ last' = Quiet
  /\ UNCHANGED <<appVars, navVars, formVars, press, envVars, activeCategory,
                 isSelectionMode, selectedIds, deleteConfirmType,
                 isTagManagerOpen, tagToDelete>>

CloseMoveModal ==
  /\ OnHome /\ showMoveModal
  /\ showMoveModal' = FALSE
  /\ last' = Quiet
  /\ UNCHANGED <<appVars, navVars, formVars, press, envVars, activeCategory,
                 isSelectionMode, selectedIds, deleteConfirmType,
                 isTagManagerOpen, tagToDelete>>

\* a button of the move modal: categories.filter(c => c !== ALL)
executeMoveCards(targetTag) ==
  /\ OnHome /\ showMoveModal
  /\ Includes(Categories(tags), targetTag) /\ targetTag # ALL
  /\ \E ok \in WriteOutcomes :
       /\ handleUpdateEntries(MoveCards(entries, selectedIds, targetTag), ok)
       /\ IF ok THEN resetSelection /\ showMoveModal' = FALSE
                ELSE UNCHANGED <<isSelectionMode, selectedIds,
                                 deleteConfirmType, showMoveModal>>
       /\ last' = Did("executeMoveCards", targetTag, Null, "", ok)
  /\ UNCHANGED <<tags, lsTags, navVars, formVars, press, saves, activeCategory,
                 isTagManagerOpen, tagToDelete>>

\* the test both drag-end handlers make before reordering: the drop target
\* is another element, and both are found in the list
ReorderAcceptedSelf(active, over, oldIndex, newIndex) ==
  oldIndex # -1 /\ newIndex # -1

ReorderAccepted(active, over, oldIndex, newIndex) ==
  active # over /\ oldIndex # -1 /\ newIndex # -1

\* handleDragEnd reorders under the unfiltered view only
FeedReorderAllowedAny(category) == TRUE

FeedReorderAllowed(category) == category = ALL

\* handleDragEnd of the feed: active is the dragged card, over the id the
\* gesture reports as the drop target (0 = dropped outside any card)
handleDragEnd(active, over) ==
  /\ OnHome /\ NoModal
  /\ active \in IdsOf(VisibleEntries(entries, activeCategory))
  /\ over \in IdsOf(entries) \cup {0}
  /\ LET oldIndex == FindIndexById(entries, active)
         newIndex == FindIndexById(entries, over)
     IN IF /\ FeedReorderAllowed(activeCategory)
           /\ ReorderAccepted(active, over, oldIndex, newIndex)
        THEN \E ok \in WriteOutcomes :
               /\ handleUpdateEntries(ArrayMove(entries, oldIndex, newIndex), ok)
               /\ last' = Did("handleDragEnd", active, over, "moved", ok)
        ELSE /\ UNCHANGED <<entries, lsEntries, failures>>
             /\ last' = Did("handleDragEnd", active, over, "ignored", TRUE)
  /\ UNCHANGED <<tags, lsTags, navVars, formVars, saves, activeCategory,
                 isSelectionMode, selectedIds, deleteConfirmType,
                 isTagManagerOpen, tagToDelete, showMoveModal>>

\* a drag of the held card: the sensor of the feed activates after 400 ms of
\* holding still, that is after the 300 ms timer of the card has fired; the
\* pointer goes up over the card over (0 = outside any card) and no click
\* follows
DragCard(over) ==
  /\ press.id # 0 /\ press.fired
  /\ handleDragEnd(press.id, over)
  /\ press' = NoPress


(* ------------------------ HomeView: tag manager ------------------------ *)
\* the settings button of the header, or a long press on a tag capsule
OpenTagManager ==
  /\ OnHome /\ NoModal /\ press = NoPress /\ ~isSelectionMode
  /\ isTagManagerOpen' = TRUE
  /\ last' = Quiet
  /\ UNCHANGED <<appVars, navVars, formVars, press, envVars, activeCategory,
                 isSelectionMode, selectedIds, deleteConfirmType, tagToDelete,
                 showMoveModal>>

CloseTagManager ==
  /\ OnHome /\ isTagManagerOpen /\ tagToDelete = Null
  /\ isTagManagerOpen' = FALSE
  /\ last' = Quiet
  /\ UNCHANGED <<appVars, navVars, formVars, press, envVars, activeCategory,
                 isSelectionMode, selectedIds, deleteConfirmType, tagToDelete,
                 showMoveModal>>

\* handleTagDragEnd -> App.handleReorderTags; over is the name the gesture
\* reports as the drop target (Null = dropped outside any tag)
handleTagDragEnd(active, over) ==
  /\ OnHome /\ isTagManagerOpen /\ tagToDelete = Null
  /\ Includes(tags, active)
  /\ LET oldIndex == IndexOf(tags, active)
         newIndex == IndexOf(tags, over)
     IN IF over # Null /\ ReorderAccepted(active, over, oldIndex, newIndex)
        THEN /\ SetTags(ArrayMove(tags, oldIndex, newIndex))
             /\ last' = Did("handleTagDragEnd", active, over, "moved", TRUE)
        ELSE /\ UNCHANGED <<tags, lsTags>>
             /\ last' = Did("handleTagDragEnd", active, over, "ignored", TRUE)
  /\ UNCHANGED <<entries, lsEntries, navVars, formVars, envVars, homeVars>>

\* the case of a rename request, read off the input alone: what the user
\* typed is empty once trimmed, is the tag's own name, is the tag's own name
\* once trimmed, names another tag of the registry, or is a new name
InputCase(tag, raw) ==
  IF Trim(raw) = <<>> THEN "empty"
  ELSE IF raw = tag THEN "same"
  ELSE IF Trim(raw) = tag THEN "padded"
  ELSE IF Includes(tags, Trim(raw)) THEN "merge"
  ELSE "replace"

\* a handleSave that hands the input to onRename as typed
RenameArgumentRaw(editValue) == editValue

\* SortableTagItem.handleSave: the name handed to onRename
RenameArgument(editValue) == Trim(editValue)

\* SortableTagItem.handleSave: whether onRename is called at all
RenameRequested(tag, editValue) == Trim(editValue) # <<>> /\ editValue # tag

\* a handleRenameInManager that resets the filter instead of following
FilterAfterRenameReset(cat, oldTag, newTag) == IF cat = oldTag THEN ALL ELSE cat

\* handleRenameInManager: the filter follows the renamed tag
FilterAfterRename(cat, oldTag, newTag) == IF cat = oldTag THEN newTag ELSE cat

\* handleRenameInManager(oldTag, newTag) with App.handleRenameTag inlined;
\* raw is what the user typed, kept for the record of the step
handleRenameInManager(oldTag, newTag, raw) ==
  IF RenameRejected(oldTag, newTag)
  THEN /\ UNCHANGED <<appVars, failures>>
       /\ activeCategory' = FilterAfterRename(activeCategory, oldTag, newTag)
       /\ last' = Did("rename", oldTag, Trim(raw), InputCase(oldTag, raw), TRUE)
  ELSE LET trimmedNewTag == Trim(newTag)
       IN \E ok \in WriteOutcomes :
            /\ SetTags(RenameTagsUpdater(tags, oldTag, trimmedNewTag))
            /\ handleUpdateEntries(RenameEntries(entries, oldTag, trimmedNewTag), ok)
            /\ activeCategory' =
                 IF ok THEN FilterAfterRename(activeCategory, oldTag, newTag)
                       ELSE activeCategory
            /\ last' = Did("rename", oldTag, Trim(raw), InputCase(oldTag, raw), ok)

\* the check button of a tag row in the manager: SortableTagItem.handleSave
TagItemSave(tag, editValue) ==
  /\ OnHome /\ isTagManagerOpen /\ tagToDelete = Null
  /\ Includes(tags, tag)
  /\ IF RenameRequested(tag, editValue)
     THEN handleRenameInManager(tag, RenameArgument(editValue), editValue)
     ELSE /\ UNCHANGED <<appVars, failures, activeCategory>>
          /\ last' = Did("rename", tag, Trim(editValue), InputCase(tag, editValue), TRUE)
  /\ UNCHANGED <<navVars, formVars, press, saves, isSelectionMode, selectedIds,
                 deleteConfirmType, isTagManagerOpen, tagToDelete,
                 showMoveModal>>

\* the trash button of a tag row
handleDeleteInManager(tag) ==
  /\ OnHome /\ isTagManagerOpen /\ tagToDelete = Null
  /\ Includes(tags, tag)
  /\ tagToDelete' = tag
  /\ last' = Quiet
  /\ UNCHANGED <<appVars, navVars, formVars, press, envVars, activeCategory,
                 isSelectionMode, selectedIds, deleteConfirmType,
                 isTagManagerOpen, showMoveModal>>

\* the cancel button of the delete confirmation
CancelDeleteTag ==
  /\ OnHome /\ tagToDelete # Null
  /\ tagToDelete' = Null
  /\ last' = Quiet
  /\ UNCHANGED <<appVars, navVars, formVars, press, envVars, activeCategory,
                 isSelectionMode, selectedIds, deleteConfirmType,
                 isTagManagerOpen, showMoveModal>>

\* confirmDeleteTag: the entries handed to onEntriesUpdate
EntriesAfterTagDelete(es, tag, type) ==
  IF type = "tag_only" THEN StripTag(es, tag) ELSE DropTagged(es, tag)

\* confirmDeleteTag: the filter after the deletion
FilterAfterDelete(cat, tag) == IF cat = tag THEN ALL ELSE cat

confirmDeleteTag(type) ==
  /\ OnHome /\ tagToDelete # Null
  /\ \E ok \in WriteOutcomes :
       /\ handleUpdateEntries(EntriesAfterTagDelete(entries, tagToDelete, type), ok)
       /\ IF ok
          THEN /\ SetTags(DeleteTagUpdater(tags, tagToDelete))
               /\ activeCategory' = FilterAfterDelete(activeCategory, tagToDelete)
               /\ tagToDelete' = Null
          ELSE UNCHANGED <<tags, lsTags, activeCategory, tagToDelete>>
       /\ last' = Did("confirmDeleteTag", tagToDelete, Null, type, ok)
  /\ UNCHANGED <<navVars, formVars, press, saves, isSelectionMode, selectedIds,
                 deleteConfirmType, isTagManagerOpen, showMoveModal>>


(* --------------------------- App: navigation --------------------------- *)
\* the views the bottom navigation offers
NavItems == {"HOME", "SEARCH", "ADD", "PROFILE"}

\* BottomNav onChange = setCurrentView; the bar is shown on three views
BottomNavChange(v) ==
  /\ currentView \in {"HOME", "SEARCH", "PROFILE"}
  /\ OnHome => NoModal /\ press = NoPress
  /\ v \in NavItems
  /\ SwitchView(v)
  /\ last' = Quiet
  /\ UNCHANGED <<appVars, selectedEntryId, pending, envVars>>

\* getActiveEntry
HasActiveEntry == selectedEntryId \in IdsOf(entries)
ActiveEntry == entries[FindIndexById(entries, selectedEntryId) + 1]

\* the edit button of DetailView, rendered when the entry exists
handleEditClick ==
  /\ currentView = "DETAIL" /\ HasActiveEntry
  /\ SwitchView("EDIT")
  /\ last' = Quiet
  /\ UNCHANGED <<appVars, selectedEntryId, pending, envVars>>

\* the view a form or a detail page is mounted in
FormMounted ==
  \/ currentView = "ADD"
  \/ currentView = "EDIT" /\ HasActiveEntry

\* handleBack (back of DetailView, cancel of the edit form) and the cancel
\* of the add form
handleBack ==
  /\ \/ currentView = "DETAIL" /\ HasActiveEntry
     \/ FormMounted
  /\ SwitchView(IF currentView = "EDIT" THEN "DETAIL" ELSE "HOME")
  /\ last' = Quiet
  /\ UNCHANGED <<appVars, selectedEntryId, pending, envVars>>

(* ----------------------------- AddEntryView ---------------------------- *)
\* handleCreateTag: window.prompt returned inputValue (Null = cancelled);
\* onAddTag is App.handleAddTag
handleCreateTag(inputValue) ==
  /\ FormMounted
  /\ IF inputValue = Null \/ Trim(inputValue) = <<>>
     THEN /\ UNCHANGED <<tags, lsTags>>
          /\ last' = Did("handleCreateTag", Null, Null, "empty", TRUE)
     ELSE /\ SetTags(AddTagUpdater(tags, tags, Trim(inputValue)))
          /\ last' = IF Includes(tags, Trim(inputValue))
                     THEN Did("handleCreateTag", Null, Null, "known", TRUE)
                     ELSE Did("handleCreateTag", Trim(inputValue), Null, "added", TRUE)
  /\ UNCHANGED <<entries, lsEntries, navVars, homeVars, formVars, envVars>>

\* the sequences without repetition over a set of names
RECURSIVE Arrangements(_)
Arrangements(S) ==
  {<<>>} \cup UNION { {<<x>> \o r : r \in Arrangements(S \ {x})} : x \in S }

\* the tag selections the form can hold: the tags of the edited entry and
\* the capsules of availableTags toggled in any order
SelectableTags ==
  TagsOf(tags) \cup (IF currentView = "EDIT" THEN TagsOf(ActiveEntry.tags) ELSE {})

FormSelections ==
  { sel \in Arrangements(SelectableTags) :
      currentView = "EDIT" =>
        \A t \in TagsOf(ActiveEntry.tags) \ TagsOf(tags) : Includes(sel, t) }

\* the number of images handleImageUpload admits (99 in the source; the
\* model runs the same comparisons against a short list)
MAX_IMAGES == 3

\* the data URL of a newly decoded file: a value not in the list
NewImage(images) ==
  CHOOSE n \in 1..(Len(images) + 1) :
    /\ \A i \in DOMAIN images : images[i] # n
    /\ \A m \in 1..(n - 1) : \E i \in DOMAIN images : images[i] = m

\* slice(0, remainingSlots) of handleImageUpload: the files that are decoded
FilesToProcess(images, n) ==
  IF n <= MAX_IMAGES - Len(images) THEN n ELSE MAX_IMAGES - Len(images)

\* the check of handleImageUpload on the list of the current render
UploadRejected(images) == Len(images) >= MAX_IMAGES

\* onChange of the file input with n files chosen; the decoding of each
\* file completes later
handleImageUpload(n) ==
  /\ FormMounted /\ ~form.isImageSelectionMode
  /\ n \in 1..MaxFiles
  /\ IF UploadRejected(form.images)
     THEN UNCHANGED form
     ELSE /\ form.decoding + FilesToProcess(form.images, n) <= MaxDecoding
          /\ form' = [form EXCEPT
                        !.decoding = @ + FilesToProcess(form.images, n)]
  /\ last' = Quiet
  /\ UNCHANGED <<appVars, navVars, homeVars, isSaving, pending, envVars>>

\* img.onload of one decoded file: setImages(prev => [...prev, url])
DecodeComplete ==
  /\ FormMounted /\ form.decoding > 0
  /\ form' = [form EXCEPT !.images = Append(@, NewImage(@)),
                          !.decoding = @ - 1]
  /\ last' = Did("setImages", Null, Null, "decoded", TRUE)
  /\ UNCHANGED <<appVars, navVars, homeVars, isSaving, pending, envVars>>

\* the positions of the thumbnails of the form
ImageIndices == 0..(Len(form.images) - 1)

\* the 400 ms timer of handleImagePointerDown fires: handleImageLongPress
handleImageLongPress(index) ==
  /\ FormMounted /\ ~form.isImageSelectionMode
  /\ index \in ImageIndices
  /\ form' = [form EXCEPT !.isImageSelectionMode = TRUE,
                          !.selectedImageIndices = {index}]
  /\ last' = Quiet
  /\ UNCHANGED <<appVars, navVars, homeVars, isSaving, pending, envVars>>

\* handleImageClick: a click on a thumbnail toggles it in selection mode
handleImageClick(index) ==
  /\ FormMounted /\ form.isImageSelectionMode
  /\ index \in ImageIndices
  /\ form' = [form EXCEPT !.selectedImageIndices =
                 IF index \in @ THEN @ \ {index} ELSE @ \cup {index}]
  /\ last' = Quiet
  /\ UNCHANGED <<appVars, navVars, homeVars, isSaving, pending, envVars>>

\* cancelImageSelection
cancelImageSelection ==
  /\ FormMounted /\ form.isImageSelectionMode
  /\ form' = [form EXCEPT !.isImageSelectionMode = FALSE,
                          !.selectedImageIndices = {}]
  /\ last' = Quiet
  /\ UNCHANGED <<appVars, navVars, homeVars, isSaving, pending, envVars>>

\* the list after splice(idx, 1) for every selected idx, largest first
RemoveIndices(images, indices) ==
  LET keep == {i \in DOMAIN images : (i - 1) \notin indices}
      Nth(k) == CHOOSE i \in keep : Cardinality({j \in keep : j < i}) = k - 1
  IN [k \in 1..Cardinality(keep) |-> images[Nth(k)]]

\* the cover index deleteSelectedImages sets
CoverAfterDelete(images, indices, coverIndex) ==
  IF coverIndex \in indices
       \/ coverIndex >= Len(RemoveIndices(images, indices))
  THEN 0
  ELSE coverIndex - Cardinality({idx \in indices : idx < coverIndex})

\* deleteSelectedImages: the button is shown while something is selected
deleteSelectedImages ==
  /\ FormMounted /\ form.isImageSelectionMode
  /\ form.selectedImageIndices # {}
  /\ form' = [form EXCEPT
       !.images = RemoveIndices(form.images, form.selectedImageIndices),
       !.coverIndex = CoverAfterDelete(form.images, form.selectedImageIndices,
                                       form.coverIndex),
       !.isImageSelectionMode = FALSE,
       !.selectedImageIndices = {}]
  /\ last' = Did("deleteSelectedImages", Null, Null, "", TRUE)
  /\ UNCHANGED <<appVars, navVars, homeVars, isSaving, pending, envVars>>

\* the cover button of a thumbnail, rendered outside selection mode
setCoverIndex(idx) ==
  /\ FormMounted /\ ~form.isImageSelectionMode
  /\ idx \in ImageIndices
  /\ form' = [form EXCEPT !.coverIndex = idx]
  /\ last' = Quiet
  /\ UNCHANGED <<appVars, navVars, homeVars, isSaving, pending, envVars>>

\* the image handleSave stores when the form holds none
PLACEHOLDER == 0

\* images of the entry handleSave builds, without the placeholder
SavedImagesRaw(images) == images

\* images of the entry handleSave builds
SavedImages(images) == IF Len(images) > 0 THEN images ELSE <<PLACEHOLDER>>

\* coverImageIndex of the entry handleSave builds
SavedCover(images, coverIndex) ==
  IF coverIndex >= Len(images) THEN 0 ELSE coverIndex

\* Date.now().toString() of the k-th creation; the built-in ids are 1 and 2
FreshId(k) == 3 + k

\* the early returns of handleSave without the test of isSaving
SaveRejectedUntitled(saving, title) == title = ""

\* the early returns of handleSave: a save is in progress, or no title
SaveRejected(saving, title) == saving \/ title = ""

\* handleSave, the click: title and selectedTags are the form's fields
handleSave(title, selectedTags) ==
  /\ FormMounted /\ ~form.isImageSelectionMode
  /\ title \in Titles
  /\ selectedTags \in FormSelections
  /\ IF SaveRejected(isSaving, title)
     THEN /\ UNCHANGED <<isSaving, pending, saves>>
          /\ last' = Did("handleSave", Null, Null, "rejected", TRUE)
     ELSE /\ Len(pending) < MaxPending
          /\ saves < MaxSaves
          /\ isSaving' = TRUE
          /\ LET newEntry ==
                   [id    |-> IF currentView = "EDIT" THEN ActiveEntry.id
                                                       ELSE FreshId(saves),
                    title |-> title,
                    tags  |-> selectedTags,
                    images |-> SavedImages(form.images),
                    coverImageIndex |->
                      SavedCover(form.images, form.coverIndex)]
             IN pending' = Append(pending,
                  [entry |-> newEntry, entriesC |-> entries, tagsC |-> tags,
                   viewC |-> currentView])
          /\ saves' = saves + 1
          /\ last' = Did("handleSave", Null, Null, "scheduled", TRUE)
  /\ UNCHANGED <<appVars, navVars, homeVars, form, failures>>

\* the 500 ms timer of handleSave fires: onSave(newEntry) is the
\* App.handleSaveEntry of the render the click happened in
SaveCommit ==
  /\ pending # <<>>
  /\ LET p == Head(pending)
     IN \E ok \in WriteOutcomes :
          /\ handleUpdateEntries(SaveEntryList(p.entriesC, p.entry), ok)
          /\ IF ok
             THEN /\ SetTags(AddAllTags(p.tagsC, tags, p.entry.tags))
                  /\ SwitchView(IF p.viewC = "EDIT" THEN "DETAIL" ELSE "HOME")
             ELSE /\ UNCHANGED <<tags, lsTags, currentView, homeVars, isSaving>>
                  /\ form' = FormReloaded(p.entry)
          /\ last' = Did("handleSaveEntry", Null, Null,
                         IF p.entry.id \in IdsOf(p.entriesC) THEN "update" ELSE "create",
                         ok)
  /\ pending' = Tail(pending)
  /\ UNCHANGED <<selectedEntryId, saves>>

(* ---------------------------- specification ---------------------------- *)
Names == {a, b, c}

\* the tag cascades: the events of the tag manager, the category bar, the
\* navigation and the tag prompt of the authoring form; every handler runs
\* to completion, a write of the entry document may fail
Next ==
  \/ \E cat \in Names \cup {ALL} : SetActiveCategory(cat)
  \/ OpenTagManager
  \/ CloseTagManager
  \/ \E active \in TagsOf(tags), over \in TagsOf(tags) \cup {Null} :
       handleTagDragEnd(active, over)
  \/ \E t \in TagsOf(tags), editValue \in RawInputs : TagItemSave(t, editValue)
  \/ \E t \in TagsOf(tags) : handleDeleteInManager(t)
  \/ CancelDeleteTag
  \/ \E type \in {"tag_only", "tag_all"} : confirmDeleteTag(type)
  \/ \E v \in {"HOME", "ADD"} : BottomNavChange(v)
  \/ handleBack
  \/ \E inputValue \in PromptInputs : handleCreateTag(inputValue)

Spec == Init /\ [][Next]_vars

\* the tag selections tried in the runs of the deferred save
ShortSelections == {sel \in FormSelections : Len(sel) <= 1}

\* the deferred save: the form, the detail page and the deletion of a tag;
\* user events may run between the click on save and its timer
NextSave ==
  \/ \E v \in {"HOME", "ADD"} : BottomNavChange(v)
  \/ handleBack
  \/ \E id \in IdsOf(entries) : Tap(id)
  \/ handleEditClick
  \/ handleCreateTag(a)
  \/ \E sel \in ShortSelections : handleSave("t1", sel)
  \/ OpenTagManager
  \/ CloseTagManager
  \/ \E t \in TagsOf(tags) : handleDeleteInManager(t)
  \/ CancelDeleteTag
  \/ confirmDeleteTag("tag_only")
  \/ SaveCommit

SpecSave == Init /\ [][NextSave]_vars

\* the feed: the long-press and tap gestures on cards, selection, the bulk
\* operations, the filter, the detail view, and reloading the page
NextFeed ==
  \/ \E se \in StartEntries, st \in StartTags : Startup(se, st)
  \/ \E cat \in {ALL} \cup Names : SetActiveCategory(cat)
  \/ \E id \in IdsOf(entries) : startPress(id)
  \/ LongPressTimer
  \/ \E delivered \in BOOLEAN : endPress(delivered)
  \/ toggleSelectionMode
  \/ RequestDeleteCards
  \/ CancelDeleteCards
  \/ executeDeleteCards
  \/ OpenMoveModal
  \/ CloseMoveModal
  \/ \E targetTag \in Names : executeMoveCards(targetTag)
  \/ \E v \in {"HOME", "ADD"} : BottomNavChange(v)
  \/ handleBack

SpecFeed == InitFeed /\ [][NextFeed]_vars

\* the state after construction over a storage holding a journal of three
\* entries and a registry of three tags
InitOrder ==
  /\ entries = SAVED_ENTRIES
  /\ tags = <<a, b, c>>
  /\ lsEntries = Stored(SAVED_ENTRIES)
  /\ lsTags = Stored(<<a, b, c>>)
  /\ currentView = "HOME"
  /\ selectedEntryId = 0
  /\ activeCategory = ALL
  /\ isSelectionMode = FALSE
  /\ selectedIds = <<>>
  /\ deleteConfirmType = "none"
  /\ isTagManagerOpen = FALSE
  /\ tagToDelete = Null
  /\ showMoveModal = FALSE
  /\ press = NoPress
  /\ isSaving = FALSE
  /\ pending = <<>>
  /\ form = NoForm
  /\ saves = 0
  /\ failures = 0
  /\ last = Quiet

\* ordering: dragging cards in the feed and tags in the tag manager, under
\* any filter and in or out of selection mode
NextOrder ==
  \/ \E cat \in {ALL} \cup Names : SetActiveCategory(cat)
  \/ \E id \in IdsOf(entries) : startPress(id)
  \/ LongPressTimer
  \/ \E delivered \in BOOLEAN : endPress(delivered)
  \/ \E over \in IdsOf(entries) \cup {0} : DragCard(over)
  \/ toggleSelectionMode
  \/ handleBack
  \/ OpenTagManager
  \/ CloseTagManager
  \/ \E active \in TagsOf(tags), over \in Names \cup {Null, ALL} :
       handleTagDragEnd(active, over)

SpecOrder == InitOrder /\ [][NextOrder]_vars

\* no save has been clicked yet
Arranging == saves = 0

\* one authoring session: the form is opened, files are chosen and decoded,
\* thumbnails are selected and deleted, the cover is set, and the form is
\* saved; decoding may complete at any time
NextImages ==
  \/ Arranging /\ BottomNavChange("ADD")
  \/ handleBack
  \/ Arranging /\ \E id \in IdsOf(entries) : Tap(id)
  \/ Arranging /\ handleEditClick
  \/ Arranging /\ \E n \in 1..MaxFiles : handleImageUpload(n)
  \/ DecodeComplete
  \/ Arranging /\ \E index \in ImageIndices : handleImageLongPress(index)
  \/ Arranging /\ \E index \in ImageIndices : handleImageClick(index)
  \/ Arranging /\ cancelImageSelection
  \/ Arranging /\ deleteSelectedImages
  \/ Arranging /\ \E idx \in ImageIndices : setCoverIndex(idx)
  \/ handleSave("t1", <<>>)
  \/ SaveCommit

SpecImages == Init /\ [][NextImages]_vars

\* creating and editing entries: the forms, the detail page, the save
\* button and the timer of the save
NextForm ==
  \/ \E v \in {"HOME", "ADD"} : BottomNavChange(v)
  \/ handleBack
  \/ \E id \in IdsOf(entries) : Tap(id)
  \/ handleEditClick
  \/ \E title \in Titles : handleSave(title, <<>>)
  \/ SaveCommit

SpecForm == Init /\ [][NextForm]_vars

\* sessions and reloads: a tag is created in the add form and given to a new
\* entry, a tag is deleted in the tag manager, and the page is loaded again
\* over what the storage then holds
NextStart ==
  \/ \E se \in StartEntries, st \in StartTags : Startup(se, st)
  \/ \E v \in {"HOME", "ADD"} : BottomNavChange(v)
  \/ handleBack
  \/ handleCreateTag(c)
  \/ \E sel \in ShortSelections : handleSave("t1", sel)
  \/ SaveCommit
  \/ OpenTagManager
  \/ CloseTagManager
  \/ \E t \in TagsOf(tags) : handleDeleteInManager(t)
  \/ CancelDeleteTag
  \/ confirmDeleteTag("tag_only")

SpecStart == Init /\ [][NextStart]_vars

\* names typed for a tag: the label of the unfiltered view among them
LabelInputs == {ALL, c, <<" ", "Q", "B">>}

\* the label of the unfiltered view typed as the name of a tag, in the
\* prompt of the add form and in the rename field of the tag manager
NextLabel ==
  \/ \E v \in {"HOME", "ADD"} : BottomNavChange(v)
  \/ handleBack
  \/ \E inputValue \in LabelInputs : handleCreateTag(inputValue)
  \/ \E cat \in {ALL} \cup Names : SetActiveCategory(cat)
  \/ OpenTagManager
  \/ CloseTagManager
  \/ \E t \in TagsOf(tags), editValue \in LabelInputs : TagItemSave(t, editValue)

SpecLabel == Init /\ [][NextLabel]_vars

\* the order of the entries: drags of cards in the feed, and one save from
\* the add form, whose timer may fire after the feed has been shown again
NextSort ==
  \/ Arranging /\ BottomNavChange("ADD")
  \/ handleBack
  \/ handleSave("t1", <<>>)
  \/ SaveCommit
  \/ \E id \in IdsOf(entries) : startPress(id)
  \/ LongPressTimer
  \/ \E delivered \in BOOLEAN : endPress(delivered)
  \/ \E over \in IdsOf(entries) \cup {0} : DragCard(over)

SpecSort == Init /\ [][NextSort]_vars

(* ------------------------------ typing --------------------------------- *)
TypeOK ==
  /\ currentView \in {"HOME", "SEARCH", "ADD", "PROFILE", "DETAIL", "EDIT"}
  /\ isSelectionMode \in BOOLEAN
  /\ press.fired \in BOOLEAN /\ press.idle \in BOOLEAN
  /\ press.id = 0 => press = NoPress
  /\ deleteConfirmType \in {"none", "cards"}
  /\ failures \in 0..MaxWriteFailures
  /\ saves \in 0..MaxSaves
  /\ Len(pending) <= MaxPending
  /\ Len(tags) <= MaxTags

(* ------------------------------ properties ----------------------------- *)
\* seq without every occurrence of x
Minus(seq, x) == SelectSeq(seq, LAMBDA t : t # x)

\* number of occurrences of x in seq
Count(seq, x) == Cardinality({i \in DOMAIN seq : seq[i] = x})

\* seq with y at every place of x
Replaced(seq, x, y) == [i \in DOMAIN seq |-> IF seq[i] = x THEN y ELSE seq[i]]

\* entry e carries tag t
Has(e, t) == \E j \in DOMAIN e.tags : e.tags[j] = t

\* the step is a rename request of the given case
RenameStep(case) == last'.op = "rename" /\ last'.case = case

\* the step is a confirmed tag deletion of the given mode
DeleteStep(type) == last'.op = "confirmDeleteTag" /\ last'.case = type

\* C1: whenever no save is pending, every tag of every stored entry is in
\* the Tag Registry
C1_EntryTagsInRegistry ==
  pending = <<>> =>
    \A i \in DOMAIN entries : \A j \in DOMAIN entries[i].tags :
      \E k \in DOMAIN tags : tags[k] = entries[i].tags[j]

\* C2: a rename of old to a name new that is in the registry removes old
\* from the registry and leaves new once at its place; every entry that had
\* old loses it and holds new exactly once, its other tags kept; entries
\* without old are unchanged
C2_MergeOnRename ==
  [][RenameStep("merge") =>
       LET old == last'.x
           new == last'.y
       IN /\ Count(tags, new) = 1
          /\ tags' = Minus(tags, old)
          /\ Count(tags', new) = 1
          /\ Len(entries') = Len(entries)
          /\ \A i \in DOMAIN entries :
               IF Has(entries[i], old)
               THEN /\ entries'[i].id = entries[i].id
                    /\ entries'[i].title = entries[i].title
                    /\ ~Has(entries'[i], old)
                    /\ Count(entries'[i].tags, new) = 1
                    /\ Minus(entries'[i].tags, new)
                         = Minus(Minus(entries[i].tags, old), new)
               ELSE entries'[i] = entries[i]]_vars

\* a merge has run: the old name is gone from the registry, the name it was
\* merged into is there and an entry carries it; the write of the entry
\* document failed
C2_Witness ==
  /\ last.op = "rename" /\ last.case = "merge" /\ ~last.ok
  /\ Count(tags, last.x) = 0 /\ Count(tags, last.y) = 1
  /\ \E i \in DOMAIN entries : Has(entries[i], last.y)

\* C3: a rename of old to a name new that is not in the registry puts new at
\* the index old had, every other tag keeping its position; in every entry
\* old is replaced by new in place; number and order of the entries and
\* their other tags are unchanged
C3_RenameToNewName ==
  [][RenameStep("replace") =>
       LET old == last'.x
           new == last'.y
       IN /\ Count(tags, new) = 0
          /\ tags' = Replaced(tags, old, new)
          /\ IndexOf(tags', new) = IndexOf(tags, old)
          /\ Len(entries') = Len(entries)
          /\ \A i \in DOMAIN entries :
               entries'[i] =
                 [entries[i] EXCEPT !.tags = Replaced(entries[i].tags, old, new)]]_vars

\* a new name has taken a place other than the first of the registry and an
\* entry carries it
C3_Witness ==
  /\ last.op = "rename" /\ last.case = "replace"
  /\ IndexOf(tags, last.y) > 0
  /\ \E i \in DOMAIN entries : Has(entries[i], last.y)

\* C4: a rename request whose input, once trimmed, is the tag's own name
\* changes neither the registry, nor the entries, nor the filter, nor the
\* persisted documents
C4_RenameToSameNameIsNoOp ==
  [][(RenameStep("same") \/ RenameStep("padded")) =>
       UNCHANGED <<tags, entries, activeCategory, lsEntries, lsTags>>]_vars

\* the input differed from the tag's name only by spaces, the tag is the
\* active filter and an entry carries it
C4_Witness ==
  /\ last.op = "rename" /\ last.case = "padded"
  /\ activeCategory = last.x
  /\ \E k \in DOMAIN tags : tags[k] = last.x
  /\ \E i \in DOMAIN entries : Has(entries[i], last.x)

\* the registry holds pairwise distinct, non-empty, trimmed names
RegistryWellFormed(ts) ==
  /\ \A i, j \in DOMAIN ts : i # j => ts[i] # ts[j]
  /\ \A i \in DOMAIN ts : ts[i] # <<>> /\ Trim(ts[i]) = ts[i]

\* C5: the registry holds pairwise distinct, non-empty, trimmed names in
\* every state, and a tag add or rename whose input is empty once trimmed
\* changes neither the registry nor the entries
C5_RegistryWellFormed ==
  [][/\ RegistryWellFormed(tags')
     /\ last'.case = "empty" => UNCHANGED <<tags, entries>>]_vars

\* C6: a confirmed deletion of a tag with its entries removes exactly the
\* entries that carry the tag, keeps the others as they are and in order, and
\* removes the tag from the registry, the other tags keeping their order
C6_DeleteTagAndEntries ==
  [][DeleteStep("tag_all") =>
       /\ entries' = SelectSeq(entries, LAMBDA e : ~Has(e, last'.x))
       /\ tags' = Minus(tags, last'.x)]_vars

\* C7: a confirmed deletion of a tag alone removes the tag from the registry
\* and from every entry and deletes no entry: ids, order, titles and the
\* other tags are unchanged
C7_DeleteTagOnly ==
  [][DeleteStep("tag_only") =>
       /\ tags' = Minus(tags, last'.x)
       /\ Len(entries') = Len(entries)
       /\ \A i \in DOMAIN entries :
            entries'[i] = [entries[i] EXCEPT !.tags = Minus(entries[i].tags, last'.x)]]_vars

\* C8: a tag rename or a tag deletion is all-or-nothing, also when the write
\* of the entry document fails: after the handler either neither the registry
\* nor the entries have changed, or the tag is gone from both
C8_CascadeAllOrNothing ==
  [][(RenameStep("merge") \/ RenameStep("replace")
        \/ DeleteStep("tag_only") \/ DeleteStep("tag_all")) =>
       \/ UNCHANGED <<tags, entries>>
       \/ /\ Count(tags', last'.x) = 0
          /\ \A i \in DOMAIN entries' : ~Has(entries'[i], last'.x)]_vars

\* C9: the active filter is the unfiltered view or a name of the registry
C9_FilterNamesRegistryTag ==
  activeCategory = ALL \/ \E k \in DOMAIN tags : tags[k] = activeCategory

\* the step deletes or renames the tag that is the active filter
ActiveTagDeleted ==
  (DeleteStep("tag_only") \/ DeleteStep("tag_all")) /\ last'.x = activeCategory
ActiveTagRenamed ==
  (RenameStep("merge") \/ RenameStep("replace")) /\ last'.x = activeCategory

\* C10 as stated: once a deletion or a rename of the active filter's tag has
\* completed, the filter is the unfiltered view
C10_FilterResetToAll ==
  [][((ActiveTagDeleted \/ ActiveTagRenamed) /\ last'.ok) =>
       activeCategory' = ALL]_vars

\* C10, amended: a completed deletion of the active filter's tag resets the
\* filter to the unfiltered view, a completed rename moves the filter to the
\* new name; when the write of the entry document fails inside the handler
\* the filter is left as it was
C10_FilterAfterTagChange ==
  [][/\ ActiveTagDeleted =>
          activeCategory' = IF last'.ok THEN ALL ELSE activeCategory
     /\ ActiveTagRenamed =>
          activeCategory' = IF last'.ok THEN last'.y ELSE activeCategory]_vars

\* a rename of the active filter's tag has completed and the filter names
\* the new tag
C10_Witness ==
  /\ last.op = "rename" /\ last.case = "replace" /\ last.ok
  /\ activeCategory = last.y
  /\ ~(\E k \in DOMAIN tags : tags[k] = last.x)

\* the step is the commit of a save
SaveStep == last'.op = "handleSaveEntry"

\* C11: a save of an entry whose id is not in the store yields the old store
\* with the entry prepended at index 0; a save of an entry whose id is in
\* the store replaces only the element of that id; all other entries keep
\* content and order; saving the same entry again changes nothing
C11_SaveInsertsOrReplaces ==
  [][SaveStep =>
       LET entry == Head(pending).entry
       IN /\ IF entry.id \in IdsOf(entries)
             THEN /\ Len(entries') = Len(entries)
                  /\ \A i \in DOMAIN entries :
                       entries'[i] = IF entries[i].id = entry.id
                                     THEN entry ELSE entries[i]
             ELSE entries' = <<entry>> \o entries
          /\ SaveEntryList(entries', entry) = entries']_vars

\* the set of the selected ids
Selected == {selectedIds[i] : i \in DOMAIN selectedIds}

\* es restricted to the entries whose id is in ids, in the order of es
Restrict(es, ids) == SelectSeq(es, LAMBDA e : e.id \in ids)

\* the selection is over: mode Idle, nothing selected
SelectionIdle == ~isSelectionMode /\ selectedIds = <<>>

\* C12: a bulk delete removes exactly the entries whose id is selected,
\* keeps the remaining entries unchanged and in order, ignores selected ids
\* that are not in the store, and ends Idle with an empty selection
C12_BulkDelete ==
  [][last'.op = "executeDeleteCards" =>
       /\ IdsOf(entries') = IdsOf(entries) \ Selected
       /\ entries' = Restrict(entries, IdsOf(entries'))
       /\ SelectionIdle']_vars

\* C13: a bulk move to targetTag is additive: each selected entry that
\* lacked targetTag gains it exactly once, no tag is removed from any entry,
\* unselected entries and the order of the entries are unchanged, and the
\* selection ends Idle and empty
C13_BulkMoveAdditive ==
  [][last'.op = "executeMoveCards" =>
       LET targetTag == last'.x
       IN /\ Len(entries') = Len(entries)
          /\ \A i \in DOMAIN entries :
               /\ entries'[i].id = entries[i].id
               /\ entries'[i].title = entries[i].title
               /\ IF entries[i].id \in Selected /\ ~Has(entries[i], targetTag)
                  THEN /\ Count(entries'[i].tags, targetTag) = 1
                       /\ Minus(entries'[i].tags, targetTag) = entries[i].tags
                  ELSE entries'[i].tags = entries[i].tags
          /\ SelectionIdle']_vars

\* the step is a reorder of the entries by a drag of a card
EntryReorder == last'.op = "handleDragEnd" /\ last'.case = "moved"

\* the step is a reorder of the tags by a drag in the tag manager
TagReorder == last'.op = "handleTagDragEnd" /\ last'.case = "moved"

\* the index (from 1) of the one place of seq that holds x
Place(seq, x) == CHOOSE i \in DOMAIN seq : seq[i] = x

\* after is before with the element at index s moved to index t: the moved
\* element is at t, the elements strictly between s and t have shifted by
\* one toward s, the elements outside the range keep their index
Reordered(before, after, s, t) ==
  /\ Len(after) = Len(before)
  /\ after[t] = before[s]
  /\ \A i \in DOMAIN before :
       /\ (s < i /\ i <= t) => after[i - 1] = before[i]
       /\ (t <= i /\ i < s) => after[i + 1] = before[i]
       /\ (i < s /\ i < t) \/ (i > s /\ i > t) => after[i] = before[i]
  /\ \A x \in {before[i] : i \in DOMAIN before} :
       Count(after, x) = Count(before, x)

\* C14: for entries and for tags alike, a reorder from index s to index t
\* yields a permutation of the previous order with the moved element at t,
\* the elements between s and t shifted by one toward s, and all other
\* elements at their index; nothing is lost, duplicated or modified
C14_ReorderIsMove ==
  [][(EntryReorder =>
        \E s, t \in DOMAIN entries :
          /\ s # t
          /\ entries[s].id = last'.x /\ entries[t].id = last'.y
          /\ Reordered(entries, entries', s, t))
     /\
     (TagReorder =>
        \E from, to \in DOMAIN tags :
          /\ from # to
          /\ from = Place(tags, last'.x) /\ to = Place(tags, last'.y)
          /\ Reordered(tags, tags', from, to))]_vars

\* a card has been dragged from the head of a feed of three entries to its
\* end (the write failed, storage still holds the order before the drag),
\* and the last tag of three has been brought to the front before
C14_Witness ==
  /\ last.op = "handleDragEnd" /\ last.case = "moved" /\ ~last.ok
  /\ lsEntries = Stored(SAVED_ENTRIES)
  /\ entries = <<SAVED_ENTRIES[2], SAVED_ENTRIES[3], SAVED_ENTRIES[1]>>
  /\ tags = <<c, a, b>>

\* the step is a drag of a card that ends on the card itself, outside any
\* card, or on an id that is not in the list
NoOpEntryDrag ==
  /\ last'.op = "handleDragEnd"
  /\ \/ last'.x = last'.y
     \/ last'.y \notin IdsOf(entries)
     \/ last'.x \notin IdsOf(entries)

\* the step is a drag of a tag that ends on the tag itself, outside any tag,
\* or on a name that is not in the registry
NoOpTagDrag ==
  /\ last'.op = "handleTagDragEnd"
  /\ \/ last'.x = last'.y
     \/ last'.y \notin TagsOf(tags)
     \/ last'.x \notin TagsOf(tags)

\* C15: a no-op drag on entries or on tags changes neither the order in
\* memory nor the persisted state and attempts no write (so none can fail)
C15_NoOpDrag ==
  [][NoOpEntryDrag \/ NoOpTagDrag =>
       UNCHANGED <<entries, tags, lsEntries, lsTags, failures>>]_vars

\* a card has been dropped on itself under the unfiltered view, at a time
\* when a write could have failed
C15_Witness ==
  /\ last.op = "handleDragEnd" /\ last.x = last.y
  /\ activeCategory = ALL
  /\ failures < MaxWriteFailures

\* C16: while the active filter is a tag, a drag-end on the feed never
\* changes the order of the entries and never writes to storage, whatever
\* cards the gesture names
C16_NoReorderUnderFilter ==
  [][last'.op = "handleDragEnd" /\ activeCategory # ALL =>
       UNCHANGED <<entries, lsEntries, failures>>]_vars

\* under a tag filter a card has been dropped on another card of the store,
\* at a time when a write could have failed
C16_Witness ==
  /\ last.op = "handleDragEnd"
  /\ activeCategory # ALL
  /\ last.x # last.y /\ last.y \in IdsOf(entries)
  /\ failures < MaxWriteFailures

\* no write has failed, and no handler or timer is pending
QuiescentWritesOk == failures = 0 /\ pending = <<>>

\* C17: with storage writes succeeding, in every quiescent state the
\* startup load from storage reproduces the entries in memory (same
\* entries, order and content, the empty collection included) and the tag
\* order in memory
C17_ReloadReproducesMemory ==
  QuiescentWritesOk =>
    /\ LoadEntries(lsEntries) = entries
    /\ LoadTags(lsTags) = tags

\* every entry has been deleted, and the empty collection has been stored
C17_Witness ==
  /\ QuiescentWritesOk
  /\ entries = <<>> /\ lsEntries = Stored(<<>>)
  /\ last.op = "executeDeleteCards"

\* the step is a start of the application
StartupStep == last'.op = "startup"

\* nothing usable is stored under a key: no item, or one that does not parse
Unusable(item) == ~item.present \/ ~Parses(item)

\* C18: at startup, when the persisted entries are absent or cannot be
\* parsed the entries start as the empty collection, and when the persisted
\* tags are absent or cannot be parsed the registry starts as the built-in
\* default tags
C18_StartupFallbackEmpty ==
  [][StartupStep =>
       /\ Unusable(last'.x) => entries' = <<>>
       /\ Unusable(last'.y) => tags' = DEFAULT_TAGS]_vars

\* C18, amended: at startup, when the persisted entries are absent or cannot
\* be parsed the entries start as the built-in sample entries, and when the
\* persisted tags are absent or cannot be parsed the registry starts as the
\* built-in default tags
C18_StartupFallbackBuiltIn ==
  [][StartupStep =>
       /\ Unusable(last'.x) => entries' = INITIAL_ENTRIES
       /\ Unusable(last'.y) => tags' = DEFAULT_TAGS]_vars

\* the application has started over a damaged entry document and no tag
\* document, after a session that held other entries
C18_Witness ==
  /\ last.op = "startup"
  /\ ~Parses(last.x) /\ ~last.y.present
  /\ entries = INITIAL_ENTRIES /\ tags = DEFAULT_TAGS

\* the step is the end of a long press that began outside selection mode:
\* the timer has fired, the pointer goes up and the click is delivered
LongPressReleased ==
  /\ press.id # 0 /\ press.fired /\ press.idle
  /\ press' = NoPress
  /\ last'.op = "handleCardClick" /\ last'.x = press.id

\* C19: a long-press gesture on a card in Idle (pointer down, hold past the
\* threshold, pointer up with the click it delivers) ends in selection mode
\* Active with exactly that card selected
C19_LongPressSelectsCard ==
  [][LongPressReleased =>
       isSelectionMode' /\ selectedIds' = <<press.id>>]_vars

\* the symmetric difference of S and {x}
Flip(S, x) == IF x \in S THEN S \ {x} ELSE S \cup {x}

\* the step enters selection mode
Enters == ~isSelectionMode /\ isSelectionMode'

\* the step leaves selection mode
Leaves == isSelectionMode /\ ~isSelectionMode'

\* the step is a tap on a card in selection mode
TapInSelection == isSelectionMode /\ last'.op = "handleCardClick"

\* in selection mode a tap toggles the membership of the tapped card only
\* and the mode stays Active; nothing else changes the selection while the
\* mode stays Active
TapToggles ==
  /\ TapInSelection =>
       isSelectionMode' /\ Selected' = Flip(Selected, last'.x)
  /\ isSelectionMode /\ isSelectionMode' /\ selectedIds' # selectedIds =>
       TapInSelection

\* the step enters selection mode by a long press, with that card selected
EntersByLongPress ==
  last'.op = "handleCardLongPress" /\ selectedIds' = <<last'.x>>

\* the step is a cancel, a bulk delete or a bulk move
CancelOrBulk ==
  last'.op \in {"toggleSelectionMode", "executeDeleteCards",
                "executeMoveCards"}

\* C20: Idle becomes Active only by a long press on a card, with exactly
\* that card selected; in Active a tap toggles the membership of the tapped
\* card only and the mode stays Active; Active becomes Idle only by cancel,
\* bulk delete or bulk move, each leaving the selection empty; whenever the
\* mode is Idle the selection is empty
C20_SelectionMachine ==
  /\ [](~isSelectionMode => selectedIds = <<>>)
  /\ [][(Enters => EntersByLongPress)
        /\ TapToggles
        /\ (Leaves => CancelOrBulk /\ selectedIds' = <<>>)]_vars

\* the step enters selection mode by the select button of the header, with
\* nothing selected
EntersByButton ==
  last'.op = "toggleSelectionMode" /\ selectedIds' = <<>>

\* the step is a bulk delete or a bulk move
BulkStep == last'.op \in {"executeDeleteCards", "executeMoveCards"}

\* the step discards the state of the feed: the application goes to another
\* view, or the page is loaded again
FeedDiscarded == currentView' # "HOME" \/ last'.op = "startup"

\* C20, amended: Idle becomes Active by a long press on a card, with exactly
\* that card selected, or by the select button of the header, with nothing
\* selected; in Active a tap toggles the membership of the tapped card only
\* and the mode stays Active; Active becomes Idle by cancel, by a bulk
\* delete or bulk move whose write succeeds, or when the feed is left or
\* loaded again, each leaving the selection empty; a bulk delete or bulk
\* move whose write fails leaves mode and selection as they were; whenever
\* the mode is Idle the selection is empty
C20_SelectionMachineWithButton ==
  /\ [](~isSelectionMode => selectedIds = <<>>)
  /\ [][(Enters => EntersByLongPress \/ EntersByButton)
        /\ TapToggles
        /\ (Leaves =>
              /\ \/ last'.op = "toggleSelectionMode"
                 \/ BulkStep /\ last'.ok
                 \/ FeedDiscarded
              /\ selectedIds' = <<>>)
        /\ (BulkStep /\ ~last'.ok =>
              UNCHANGED <<isSelectionMode, selectedIds>>)]_vars

\* selection mode has been entered by the select button of the header, with
\* nothing selected
C20_Witness ==
  /\ last.op = "toggleSelectionMode"
  /\ isSelectionMode /\ selectedIds = <<>>

(* ------------------------- images of the entries ----------------------- *)
\* the entry holds at least one image and its cover index names one of them
CoverInRange(e) ==
  /\ Len(e.images) >= 1
  /\ e.coverImageIndex \in 0..(Len(e.images) - 1)

DeleteKeepsCover ==
  /\ last'.op = "deleteSelectedImages"
  /\ form.coverIndex \in ImageIndices
  /\ form.coverIndex \notin form.selectedImageIndices

\* C26: deleting selected images that do not include the cover leaves the
\* cover on the same image: its index goes down by the number of deleted
\* images that preceded it
C26_CoverFollowsImage ==
  [][DeleteKeepsCover =>
       /\ form'.coverIndex = form.coverIndex
            - Cardinality({idx \in form.selectedImageIndices :
                             idx < form.coverIndex})
       /\ form'.images[form'.coverIndex + 1] = form.images[form.coverIndex + 1]
    ]_vars

\* C29: the image list of the form never holds more images than the limit,
\* however file selections and the completions of decoding interleave
C29_ImageLimit == Len(form.images) <= MAX_IMAGES

(* ------------------------------- the form ------------------------------ *)
\* C27: in every reachable state the ids of the entries in the store are
\* pairwise distinct
C27_IdsDistinct ==
  \A i, j \in DOMAIN entries : i # j => entries[i].id # entries[j].id

\* an entry was created and then an entry of the store was saved from the
\* edit form
C27_Witness ==
  /\ Len(entries) = Len(INITIAL_ENTRIES) + 1
  /\ last.op = "handleSaveEntry" /\ last.case = "update"

\* the step is a click on the save button while the form shows a save in
\* progress
ClickWhileSaving == isSaving /\ last'.op = "handleSave"

\* C28: one save gesture commits at most once: from the click until the flag
\* is cleared, a further click on save schedules no further commit, and each
\* scheduled commit calls onSave once
C28_OneCommitPerGesture ==
  [][/\ ClickWhileSaving => pending' = pending /\ saves' = saves
     /\ SaveStep => pending' = Tail(pending)
     /\ Len(pending') > Len(pending) =>
          ~isSaving /\ isSaving' /\ saves' = saves + 1]_vars

\* the save button was clicked again while the save was in progress, and
\* the one commit that was scheduled is still to come
C28_Witness ==
  /\ last.op = "handleSave" /\ last.case = "rejected"
  /\ isSaving /\ Len(pending) = 1

\* C23: the commit of a deferred save loses no update: the store after the
\* commit is the store as it is when the timer fires with the saved entry
\* inserted or replaced, so no entry deleted since the click reappears and
\* no change made since the click is reverted
C23_CommitKeepsUpdates ==
  [][SaveStep =>
       LET entry == Head(pending).entry
       IN /\ \A j \in DOMAIN entries' :
               entries'[j].id \in IdsOf(entries) \cup {entry.id}
          /\ \A i \in DOMAIN entries :
               entries[i].id # entry.id =>
                 \E j \in DOMAIN entries' : entries'[j] = entries[i]
          /\ \E j \in DOMAIN entries' : entries'[j] = entry]_vars

(* -------------------------------- startup ------------------------------ *)
\* C24: in the state a start of the application produces, whatever the two
\* storage keys hold (a document, nothing, or a damaged string), every tag
\* of every loaded entry is in the registry
C24_LoadedTagsInRegistry ==
  [][StartupStep =>
       \A i \in DOMAIN entries' :
         \A j \in DOMAIN entries'[i].tags :
           Includes(tags', entries'[i].tags[j])]_vars

(* ------------------------------ selection ------------------------------ *)
\* C25: in every reachable state every selected id is the id of an entry
\* that is in the store and is shown under the active filter
C25_SelectionVisible ==
  Selected \subseteq IdsOf(VisibleEntries(entries, activeCategory))

(* --------------------------- the reserved label ------------------------ *)
\* the entries of es that carry tag t
Tagged(es, t) == SelectSeq(es, LAMBDA e : Has(e, t))

\* C30: the registry never contains the label of the unfiltered view, and
\* the filter set to any tag t of the registry shows exactly the entries
\* whose tags contain t
C30_ReservedLabelNotATag ==
  /\ ~Includes(tags, ALL)
  /\ \A t \in TagsOf(tags) : VisibleEntries(entries, t) = Tagged(entries, t)

(* -------------------------------- ordering ----------------------------- *)
\* any two different elements of before that are both in after stand in
\* after in the order they have in before
OrderKept(before, after) ==
  \A i, j \in DOMAIN before :
    (/\ i < j
     /\ before[i] # before[j]
     /\ \E k \in DOMAIN after : after[k] = before[i]
     /\ \E k \in DOMAIN after : after[k] = before[j])
    => \E k, l \in DOMAIN after :
         k < l /\ after[k] = before[i] /\ after[l] = before[j]

\* the ids of es in the order of es
IdSeq(es) == [i \in DOMAIN es |-> es[i].id]

\* C22: nothing re-sorts on its own: two tags that both stay in the registry
\* change their relative order only by a drag in the tag manager, and two
\* entries that both stay in the store change their relative order only by
\* a drag of a card; saving, renaming and deleting keep these orders
C22_NoSilentReorder ==
  [][/\ ~TagReorder => OrderKept(tags, tags')
     /\ ~EntryReorder => OrderKept(IdSeq(entries), IdSeq(entries'))]_vars

====
